---- MODULE Spec2Model ----
(***************************************************************************)
(* Bowyer-Watson Delaunay triangulation of src/main.cpp.                   *)
(*                                                                         *)
(* Coordinates.  An input is a sequence of points on a regular grid        *)
(* (i * h, j * h) with i in 0..MaxX, j in 0..MaxY and grid step h, where   *)
(* h = 1 (scale "unit") or h = 2^-8 (scale "fine").  The model stores      *)
(* every coordinate as an integer count of half steps h/2, so an input     *)
(* coordinate is the even number 2*i, and the mid point (min + max) / 2.0  *)
(* of the bounding box is an integer too.  Every double the program        *)
(* computes on such an input is an integer multiple of a power of two      *)
(* below 2^53 in magnitude, so the double arithmetic is exact and the      *)
(* integer model computes the very same values.                            *)
(*                                                                         *)
(* The determinant of inCircumcircle is homogeneous of degree 4: the       *)
(* program's det is (h/2)^4 times the model's det.  The test det > 1e-9    *)
(* is therefore  modeldet > 1e-9 * (2/h)^4, that is                        *)
(*    h = 1    : modeldet > 1.6e-8     <=> modeldet > 0                    *)
(*    h = 2^-8 : modeldet > 68.719...  <=> modeldet > 68                   *)
(***************************************************************************)
EXTENDS Integers, Sequences, FiniteSets, TLC

VARIABLES points, scale, pc, i, triangles, superTriangle, oobRead, outcome

vars == <<points, scale, pc, i, triangles, superTriangle, oobRead, outcome>>

\* Largest grid index of an input point along x and along y.
MaxX == 2
MaxY == 1
\* Largest number of points of an input sequence.
MaxPts == 5

Scales == {"unit", "fine"}

\* struct Point {double x, y;}
Point(px, py) == [x |-> px, y |-> py]

\* The input points the model draws from (half-step units).
Grid == {Point(2 * gx, 2 * gy) : gx \in 0..MaxX, gy \in 0..MaxY}

\* Point::operator==
PointEq(p, q) == p.x = q.x /\ p.y = q.y

\* struct Edge {Point p1, p2;}
Edge(u, v) == [p1 |-> u, p2 |-> v]

\* Edge::operator== with the reversed match left out.
EdgeEqDirected(e, f) == PointEq(e.p1, f.p1) /\ PointEq(e.p2, f.p2)

\* Edge::operator==
EdgeEq(e, f) ==
    \/ (PointEq(e.p1, f.p1) /\ PointEq(e.p2, f.p2))
    \/ (PointEq(e.p1, f.p2) /\ PointEq(e.p2, f.p1))

\* struct Triangle {Point a, b, c;}
Triangle(u, v, w) == [a |-> u, b |-> v, c |-> w]

\* The tolerance 1e-9 of inCircumcircle, in the determinant's model units.
EpsUnits == IF scale = "unit" THEN 0 ELSE 68

\* The determinant det of inCircumcircle.
Det(p, t) ==
    LET ax == t.a.x - p.x
        ay == t.a.y - p.y
        bx == t.b.x - p.x
        by == t.b.y - p.y
        cx == t.c.x - p.x
        cy == t.c.y - p.y
    IN  (ax * ax + ay * ay) * (bx * cy - cx * by)
        - (bx * bx + by * by) * (ax * cy - cx * ay)
        + (cx * cx + cy * cy) * (ax * by - bx * ay)

\* bool inCircumcircle(const Point& p, const Triangle& t)
inCircumcircle(p, t) == Det(p, t) > EpsUnits

Min2(m, n) == IF m < n THEN m ELSE n
Max2(m, n) == IF m > n THEN m ELSE n

\* The bounding-box loop: the fold of std::min / std::max over the points,
\* started from points[0].
RECURSIVE FoldMin(_, _, _), FoldMax(_, _, _)
FoldMin(s, k, acc) == IF k > Len(s) THEN acc ELSE FoldMin(s, k + 1, Min2(acc, s[k]))
FoldMax(s, k, acc) == IF k > Len(s) THEN acc ELSE FoldMax(s, k + 1, Max2(acc, s[k]))

Xs(pts) == [k \in 1..Len(pts) |-> pts[k].x]
Ys(pts) == [k \in 1..Len(pts) |-> pts[k].y]

\* The super triangle built from the bounds minX, maxX, minY, maxY.
SuperFromBounds(minX, maxX, minY, maxY) ==
    LET dx == maxX - minX
        dy == maxY - minY
        deltaMax == Max2(dx, dy)
        midX == (minX + maxX) \div 2
        midY == (minY + maxY) \div 2
    IN  Triangle(Point(midX - 20 * deltaMax, midY - deltaMax),
                 Point(midX + 20 * deltaMax, midY - deltaMax),
                 Point(midX, midY + 20 * deltaMax))

\* Lines 61-82 for a non-empty input.
SuperTriangleOf(pts) ==
    SuperFromBounds(FoldMin(Xs(pts), 1, pts[1].x), FoldMax(Xs(pts), 1, pts[1].x),
                    FoldMin(Ys(pts), 1, pts[1].y), FoldMax(Ys(pts), 1, pts[1].y))

\* Lines 90-97: the triangles whose circumcircle contains the point.
BadTriangles(tris, p) == SelectSeq(tris, LAMBDA t : inCircumcircle(p, t))

\* Lines 93-95: the three edges of every bad triangle, in order.
Polygon(bad) ==
    [k \in 1..(3 * Len(bad)) |->
        LET t == bad[((k - 1) \div 3) + 1]
            r == (k - 1) % 3
        IN  IF r = 0 THEN Edge(t.a, t.b)
            ELSE IF r = 1 THEN Edge(t.b, t.c)
            ELSE Edge(t.c, t.a)]

\* The remove_if predicate of lines 101-107: positional equality with a bad one.
IsBad(t, bad) ==
    \E k \in 1..Len(bad) :
        PointEq(t.a, bad[k].a) /\ PointEq(t.b, bad[k].b) /\ PointEq(t.c, bad[k].c)

\* Lines 100-108.
RemoveBad(tris, bad) == SelectSeq(tris, LAMBDA t : ~IsBad(t, bad))

\* Lines 111-123 with the uniqueness test left out: every polygon edge is kept.
UniqueEdgesAll(polygon) == polygon

\* Lines 111-123: the edges that equal no other edge of the polygon.
UniqueEdges(polygon) ==
    LET isUnique(m) ==
            \A j \in 1..Len(polygon) : (m # j) => ~EdgeEq(polygon[m], polygon[j])
        F[k \in 0..Len(polygon)] ==
            IF k = 0 THEN <<>>
            ELSE IF isUnique(k) THEN Append(F[k - 1], polygon[k])
            ELSE F[k - 1]
    IN  F[Len(polygon)]

\* One iteration of the loop of lines 85-129.
InsertPoint(tris, p) ==
    LET bad == BadTriangles(tris, p)
        uniqueEdges == UniqueEdges(Polygon(bad))
    IN  RemoveBad(tris, bad)
        \o [k \in 1..Len(uniqueEdges) |->
               Triangle(uniqueEdges[k].p1, uniqueEdges[k].p2, p)]

\* The pruning predicate of lines 133-136.
TouchesSuper(t, s) ==
    \/ PointEq(t.a, s.a) \/ PointEq(t.b, s.a) \/ PointEq(t.c, s.a)
    \/ PointEq(t.a, s.b) \/ PointEq(t.b, s.b) \/ PointEq(t.c, s.b)
    \/ PointEq(t.a, s.c) \/ PointEq(t.b, s.c) \/ PointEq(t.c, s.c)

\* The pruning with the test of the third super-triangle corner left out.
PruneSuperNoC(tris, s) ==
    SelectSeq(tris, LAMBDA t :
        ~(\/ PointEq(t.a, s.a) \/ PointEq(t.b, s.a) \/ PointEq(t.c, s.a)
          \/ PointEq(t.a, s.b) \/ PointEq(t.b, s.b) \/ PointEq(t.c, s.b)))

\* Lines 131-137.
PruneSuper(tris, s) == SelectSeq(tris, LAMBDA t : ~TouchesSuper(t, s))

\* The loop of lines 85-129 over pts[k..], from the triangle list tris.
RECURSIVE InsertAll(_, _, _)
InsertAll(tris, pts, k) ==
    IF k > Len(pts) THEN tris ELSE InsertAll(InsertPoint(tris, pts[k]), pts, k + 1)

\* delaunayTriangulation on a non-empty input, as one function.
delaunayTriangulation(pts) ==
    LET s == SuperTriangleOf(pts)
    IN  PruneSuper(InsertAll(<<s>>, pts, 1), s)

----
\* The state machine: one call of delaunayTriangulation.

NoTriangle == Triangle(Point(0, 0), Point(0, 0), Point(0, 0))

Inputs == UNION {[1..n -> Grid] : n \in 0..MaxPts}

Init ==
    /\ points \in Inputs
    /\ scale \in Scales
    /\ pc = "start"
    /\ i = 1
    /\ triangles = <<>>
    /\ superTriangle = NoTriangle
    /\ oobRead = FALSE
    /\ outcome = "none"

\* Lines 59-83 on a non-empty input.
Bootstrap ==
    /\ pc = "start"
    /\ Len(points) > 0
    /\ superTriangle' = SuperTriangleOf(points)
    /\ triangles' = <<superTriangle'>>
    /\ pc' = "insert"
    /\ UNCHANGED <<points, scale, i, oobRead, outcome>>

\* Lines 59-83 on an empty input: points[0] is read out of bounds (lines
\* 62-63).  The read either faults, or yields some pair of doubles from which
\* the super triangle is built (the bounding-box loop runs zero times).
BootstrapEmpty ==
    /\ pc = "start"
    /\ Len(points) = 0
    /\ oobRead' = TRUE
    /\ \/ /\ pc' = "crashed"
          /\ outcome' = "crashed"
          /\ UNCHANGED <<superTriangle, triangles>>
       \/ \E g \in Grid :
            /\ superTriangle' = SuperFromBounds(g.x, g.x, g.y, g.y)
            /\ triangles' = <<superTriangle'>>
            /\ pc' = "insert"
            /\ UNCHANGED outcome
    /\ UNCHANGED <<points, scale, i>>

\* One iteration of the insertion loop, lines 85-129.
Insert ==
    /\ pc = "insert"
    /\ i <= Len(points)
    /\ triangles' = InsertPoint(triangles, points[i])
    /\ i' = i + 1
    /\ UNCHANGED <<points, scale, pc, superTriangle, oobRead, outcome>>

\* Lines 131-139: the pruning and the return.
Prune ==
    /\ pc = "insert"
    /\ i > Len(points)
    /\ triangles' = PruneSuper(triangles, superTriangle)
    /\ pc' = "done"
    /\ outcome' = "returned"
    /\ UNCHANGED <<points, scale, i, superTriangle, oobRead>>

Next == Bootstrap \/ BootstrapEmpty \/ Insert \/ Prune

Spec == Init /\ [][Next]_vars


----
\* Geometry used to state the properties.

Abs(n) == IF n < 0 THEN 0 - n ELSE n

\* Twice the signed area of a triangle: (b - a) x (c - a), positive iff (a, b, c)
\* is counter-clockwise.
Area2(t) == (t.b.x - t.a.x) * (t.c.y - t.a.y) - (t.c.x - t.a.x) * (t.b.y - t.a.y)

Vertices(t) == {t.a, t.b, t.c}

EdgesOf(t) == {Edge(t.a, t.b), Edge(t.b, t.c), Edge(t.c, t.a)}

PointSet(pts) == {pts[k] : k \in 1..Len(pts)}

\* The points inserted so far: points[1..i-1].
Inserted == {points[k] : k \in 1..(i - 1)}

\* The number of triangles of tris that have an edge equal to e.
Sharing(tris, e) ==
    Cardinality({k \in 1..Len(tris) : \E f \in EdgesOf(tris[k]) : EdgeEq(e, f)})

RECURSIVE SumAbsArea2(_, _)
SumAbsArea2(tris, k) ==
    IF k > Len(tris) THEN 0 ELSE Abs(Area2(tris[k])) + SumAbsArea2(tris, k + 1)

\* Side of the point p relative to the directed line u -> v.
Side(u, v, p) == (v.x - u.x) * (p.y - u.y) - (p.x - u.x) * (v.y - u.y)

\* p lies strictly inside the triangle t (of either orientation).
StrictlyInside(p, t) ==
    \/ (Side(t.a, t.b, p) > 0 /\ Side(t.b, t.c, p) > 0 /\ Side(t.c, t.a, p) > 0)
    \/ (Side(t.a, t.b, p) < 0 /\ Side(t.b, t.c, p) < 0 /\ Side(t.c, t.a, p) < 0)

\* The line through an edge of s separates s from t: s lies on one closed side
\* and t on the other.
EdgeSeparates(s, t) ==
    \E e \in {<<s.a, s.b, s.c>>, <<s.b, s.c, s.a>>, <<s.c, s.a, s.b>>} :
        \/ (Side(e[1], e[2], e[3]) >= 0 /\ \A v \in Vertices(t) : Side(e[1], e[2], v) <= 0)
        \/ (Side(e[1], e[2], e[3]) <= 0 /\ \A v \in Vertices(t) : Side(e[1], e[2], v) >= 0)

\* Two triangles have disjoint interiors: one of them has no interior, or the
\* line through an edge of one of them separates them.
InteriorsDisjoint(s, t) ==
    \/ Area2(s) = 0
    \/ Area2(t) = 0
    \/ EdgeSeparates(s, t)
    \/ EdgeSeparates(t, s)

AllCollinear(pts) ==
    \A u \in PointSet(pts), v \in PointSet(pts), w \in PointSet(pts) :
        Side(u, v, w) = 0

\* A triangle list as the set of its triangles' vertex sets.
TriSets(tris) == {Vertices(tris[k]) : k \in 1..Len(tris)}

\* The reorderings of a sequence.
Perms(pts) ==
    {[k \in 1..Len(pts) |-> pts[f[k]]] :
        f \in {g \in [1..Len(pts) -> 1..Len(pts)] :
                 \A m, n \in 1..Len(pts) : (g[m] = g[n]) => (m = n)}}

\* Point::operator<, the lexicographic order.
PointLess(p, q) == IF p.x < q.x THEN TRUE ELSE IF p.x > q.x THEN FALSE ELSE p.y < q.y

\* The circumcircle test decides every case the same way as the sign of the
\* exact determinant: no input point lies on, or within the tolerance of, the
\* circumcircle of three other non-collinear points among the input points and
\* the super-triangle corners.
Decisive(pts) ==
    LET s == SuperTriangleOf(pts)
        all == PointSet(pts) \cup Vertices(s)
    IN  \A u \in all, v \in all, w \in all :
            (PointLess(u, v) /\ PointLess(v, w) /\ Side(u, v, w) # 0) =>
                \A p \in PointSet(pts) \ {u, v, w} :
                    Abs(Det(p, Triangle(u, v, w))) > EpsUnits

SquareInput == <<Point(0, 0), Point(2, 0), Point(2, 2), Point(0, 2)>>

----
\* The claims.

\* C1: Delaunay property as an invariant: for every non-empty input, after
\* each insertion and in the returned list, no inserted point that is not a
\* vertex of a triangle of the list is inside that triangle's circumcircle
\* (inCircumcircle is false).
C1_DelaunayProperty ==
    (pc \in {"insert", "done"} /\ Len(points) > 0) =>
        \A k \in 1..Len(triangles) : \A p \in Inserted :
            (p \notin Vertices(triangles[k])) => ~inCircumcircle(p, triangles[k])

\* C2: for every non-empty input, every vertex of every returned triangle is
\* a point of the input and none is a corner of the super triangle.
C2_OutputVerticesAreInputs ==
    (pc = "done" /\ Len(points) > 0) =>
        \A k \in 1..Len(triangles) : \A v \in Vertices(triangles[k]) :
            /\ \E m \in 1..Len(points) : PointEq(points[m], v)
            /\ \A c \in Vertices(superTriangle) : ~PointEq(v, c)

\* C2 witness: a call on a non-empty input has returned triangles.
C2_Witness == pc = "done" /\ Len(points) > 0 /\ Len(triangles) > 0

\* C3: in the returned list every edge of a triangle belongs to exactly one
\* or exactly two triangles.
C3_EdgeSharing ==
    (pc = "done" /\ Len(points) > 0) =>
        \A k \in 1..Len(triangles) : \A e \in EdgesOf(triangles[k]) :
            Sharing(triangles, e) \in {1, 2}

\* C4 as claimed: every reordering of the input returns the same set of
\* triangles.
C4_OrderIndependent ==
    (pc = "done" /\ Len(points) > 0) =>
        \A q \in Perms(points) :
            TriSets(delaunayTriangulation(q)) = TriSets(triangles)

\* C4 as amended: every reordering of the input returns the same set of
\* triangles provided that the circumcircle test is decisive on the input: no
\* input point lies on, or within the tolerance of, the circumcircle of three
\* other non-collinear points among the input points and the super-triangle
\* corners.
C4_OrderIndependentWhenDecisive ==
    (pc = "done" /\ Len(points) > 0 /\ Decisive(points)) =>
        \A q \in Perms(points) :
            TriSets(delaunayTriangulation(q)) = TriSets(triangles)

\* C4 witness: a decisive input of four distinct points has returned at least
\* two triangles.
C4_Witness ==
    /\ pc = "done"
    /\ Cardinality(PointSet(points)) >= 4
    /\ Decisive(points)
    /\ Len(triangles) >= 2

\* C5: scenario B: on the unit square (0,0),(1,0),(1,1),(0,1) the call returns
\* exactly two triangles on the square's corners, which share exactly one edge,
\* a diagonal of the square, and whose areas sum to 1.0 (8 in doubled
\* half-step units).
C5_ScenarioB ==
    (pc = "done" /\ scale = "unit" /\ points = SquareInput) =>
        /\ Len(triangles) = 2
        /\ \A k \in 1..Len(triangles) : Vertices(triangles[k]) \subseteq PointSet(SquareInput)
        /\ LET shared == {e \in EdgesOf(triangles[1]) :
                             \E f \in EdgesOf(triangles[2]) : EdgeEq(e, f)}
           IN  /\ Cardinality(shared) = 1
               /\ \A e \in shared :
                      \/ {e.p1, e.p2} = {Point(0, 0), Point(2, 2)}
                      \/ {e.p1, e.p2} = {Point(2, 0), Point(0, 2)}
        /\ SumAbsArea2(triangles, 1) = 8

\* C5 witness: the call on the unit square has returned.
C5_Witness == pc = "done" /\ scale = "unit" /\ points = SquareInput

\* C6: no returned triangle has zero area, and an input whose points are all
\* collinear returns the empty list.
C6_NoZeroAreaTriangle ==
    (pc = "done" /\ Len(points) > 0) =>
        /\ \A k \in 1..Len(triangles) : Area2(triangles[k]) # 0
        /\ AllCollinear(points) => Len(triangles) = 0

\* C7: on an empty input the call fails with InvalidInput and reads no element
\* of the sequence.
C7_EmptyInputInvalid ==
    (pc # "start" /\ Len(points) = 0) => (outcome = "InvalidInput" /\ ~oobRead)

\* C8: for every non-empty input the super triangle is non-degenerate and
\* every input point lies strictly inside it.
C8_SuperTriangleEncloses ==
    (pc # "start" /\ Len(points) > 0) =>
        /\ Area2(superTriangle) # 0
        /\ \A p \in PointSet(points) : StrictlyInside(p, superTriangle)

\* C9: before pruning, after the bootstrap and after every insertion, the
\* triangles have pairwise disjoint interiors, their areas sum to the area of
\* the super triangle, and every edge is shared by at most two triangles.
C9_ValidTriangulation ==
    (pc = "insert" /\ Len(points) > 0) =>
        /\ \A k, m \in 1..Len(triangles) :
               (k < m) => InteriorsDisjoint(triangles[k], triangles[m])
        /\ SumAbsArea2(triangles, 1) = Abs(Area2(superTriangle))
        /\ \A k \in 1..Len(triangles) : \A e \in EdgesOf(triangles[k]) :
               Sharing(triangles, e) <= 2

\* C10: for every input with at least two distinct points, every triangle of
\* the list at every step is counter-clockwise: its signed area is positive.
C10_CounterClockwise ==
    (pc \in {"insert", "done"} /\ Cardinality(PointSet(points)) >= 2) =>
        \A k \in 1..Len(triangles) : Area2(triangles[k]) > 0

----
TypeOK ==
    /\ points \in Inputs
    /\ scale \in Scales
    /\ pc \in {"start", "insert", "done", "crashed"}
    /\ i \in 1..(MaxPts + 1)
    /\ outcome \in {"none", "returned", "crashed", "InvalidInput"}
    /\ oobRead \in BOOLEAN
====
